---- MODULE Spec2Model ----
(***************************************************************************)
(* A model of QEMU's in-memory device tree builder (util/qdt.c and         *)
(* include/qemu/qdt.h): nodes with ordered properties and ordered          *)
(* children, path lookup, property get/set/delete with the cell helpers,   *)
(* and the flattener that drives libfdt's sequential-write encoder.        *)
(*                                                                         *)
(* C strings are sequences of one-character strings (a node name, a path). *)
(* Property names are only ever compared with strcmp and are TLA+ strings. *)
(* A pointer to a node is its index in the heap `nodes` (0 is NULL).       *)
(* A w-bit unsigned integer is written by its base-256 digits, most        *)
(* significant first, as in the literal 0x01020304 = <<1, 2, 3, 4>>.       *)
(***************************************************************************)
EXTENDS Integers, Sequences, FiniteSets, TLC

VARIABLES
    nodes,      \* the heap of QDTNode objects, in allocation order
    last,       \* the last call: its name, arguments, return value and trace
    aborted,    \* a g_assert()/assert() failed: the process is gone
    host_be     \* the host stores integers most significant byte first

vars == <<nodes, last, aborted, host_be>>

-----------------------------------------------------------------------------
(* Bounds of the model *)

\* nodes allocated in the node/path specification
MaxNodes == 3
\* values passed to one qdt_setprop_cells_ / qdt_setprop_u64s_ call
MaxCells == 2
\* nodes allocated in the flattening specification
MaxFlatNodes == 3
MaxDupNodes == 4

NULL == 0

-----------------------------------------------------------------------------
(* C string helpers *)

\* strchr(s, c): the index of the first c in s, 0 when there is none
strchr(s, c) ==
    IF \E i \in 1..Len(s) : s[i] = c
    THEN CHOOSE i \in 1..Len(s) : s[i] = c /\ \A j \in 1..(i - 1) : s[j] # c
    ELSE NULL

\* memchr(s, c, n): the same over the first n characters of s
memchr(s, c, n) ==
    IF \E i \in 1..n : s[i] = c
    THEN CHOOSE i \in 1..n : s[i] = c /\ \A j \in 1..(i - 1) : s[j] # c
    ELSE NULL

\* the characters of s from index i on (the pointer s + (i - 1))
StrFrom(s, i) == IF i > Len(s) THEN <<>> ELSE SubSeq(s, i, Len(s))

-----------------------------------------------------------------------------
(* Node functions *)

\* qdt_new_node after its g_assert: a node with no parent, no property, no child
qdt_new_node(name) ==
    [name |-> name, parent |-> NULL, properties |-> <<>>, children |-> <<>>]

\* the g_assert of qdt_new_node looking at the first character only
new_node_assert_first(name) == name = <<>> \/ name[1] # "/"

\* the g_assert of qdt_new_node
new_node_assert(name) == strchr(name, "/") = NULL

\* get_subnode returning the last child that matches
get_subnode_last(ns, parent, name, namelen) ==
    LET kids == ns[parent].children
        hit(i) == /\ Len(ns[kids[i]].name) = namelen
                  /\ \A k \in 1..namelen : ns[kids[i]].name[k] = name[k]
    IN  IF \E i \in 1..Len(kids) : hit(i)
        THEN kids[CHOOSE i \in 1..Len(kids) :
                    hit(i) /\ \A j \in (i + 1)..Len(kids) : ~hit(j)]
        ELSE NULL

\* get_subnode taking an empty segment for the node itself
get_subnode_self(ns, parent, name, namelen) ==
    LET kids == ns[parent].children
        hit(i) == /\ Len(ns[kids[i]].name) = namelen
                  /\ \A k \in 1..namelen : ns[kids[i]].name[k] = name[k]
    IN  IF namelen = 0 THEN parent
        ELSE IF \E i \in 1..Len(kids) : hit(i)
             THEN kids[CHOOSE i \in 1..Len(kids) :
                         hit(i) /\ \A j \in 1..(i - 1) : ~hit(j)]
             ELSE NULL

\* get_subnode without the strlen(child->name) == namelen test
get_subnode_prefix(ns, parent, name, namelen) ==
    LET kids == ns[parent].children
        hit(i) == /\ Len(ns[kids[i]].name) >= namelen
                  /\ \A k \in 1..namelen : ns[kids[i]].name[k] = name[k]
    IN  IF \E i \in 1..Len(kids) : hit(i)
        THEN kids[CHOOSE i \in 1..Len(kids) :
                    hit(i) /\ \A j \in 1..(i - 1) : ~hit(j)]
        ELSE NULL

\* get_subnode: the first child of parent whose name has length namelen and
\* equals the first namelen characters of name; NULL when there is none
get_subnode(ns, parent, name, namelen) ==
    LET kids == ns[parent].children
        hit(i) == /\ Len(ns[kids[i]].name) = namelen
                  /\ \A k \in 1..namelen : ns[kids[i]].name[k] = name[k]
    IN  IF \E i \in 1..Len(kids) : hit(i)
        THEN kids[CHOOSE i \in 1..Len(kids) :
                    hit(i) /\ \A j \in 1..(i - 1) : ~hit(j)]
        ELSE NULL

\* the g_assert of get_subnode: no separator in the first namelen characters
get_subnode_assert(name, namelen) == memchr(name, "/", namelen) = NULL

\* qdt_get_node_relative: the do-while loop, one iteration per call.  The
\* result holds the node returned, the get_subnode calls made, each as
\* <<node searched, segment looked up>>, and whether get_subnode aborted.
RECURSIVE get_node_loop(_, _, _, _)
get_node_loop(ns, node, path, lookups) ==
    LET slash  == strchr(path, "/")
        seglen == IF slash # NULL THEN slash - 1 ELSE Len(path)
        child  == get_subnode(ns, node, path, seglen)
        made   == Append(lookups, <<node, SubSeq(path, 1, seglen)>>)
    IN  IF ~get_subnode_assert(path, seglen)
        THEN [node |-> NULL, lookups |-> made, abort |-> TRUE]
        ELSE IF child # NULL /\ slash # NULL
             THEN get_node_loop(ns, child, StrFrom(path, seglen + 2), made)
             ELSE [node |-> child, lookups |-> made, abort |-> FALSE]

qdt_get_node_relative(ns, node, path) == get_node_loop(ns, node, path, <<>>)

\* the two g_asserts of qdt_get_node
get_node_assert(ns, root, path) ==
    /\ ns[root].parent = NULL
    /\ Len(path) > 0 /\ path[1] = "/"

qdt_get_node(ns, root, path) == qdt_get_node_relative(ns, root, StrFrom(path, 2))

\* qdt_add_subnode without new->parent = parent
qdt_add_subnode_orphan(ns, parent, name) ==
    Append([ns EXCEPT ![parent].children = Append(@, Len(ns) + 1)],
           qdt_new_node(name))

\* qdt_add_subnode linking the child at the head of parent's child list
qdt_add_subnode_head(ns, parent, name) ==
    LET child == [qdt_new_node(name) EXCEPT !.parent = parent]
        id    == Len(ns) + 1
    IN  Append([ns EXCEPT ![parent].children = <<id>> \o @], child)

\* qdt_add_subnode after qdt_new_node's g_assert: the heap with the child
\* allocated and linked at the tail of parent's child list
qdt_add_subnode(ns, parent, name) ==
    LET child == [qdt_new_node(name) EXCEPT !.parent = parent]
        id    == Len(ns) + 1
    IN  Append([ns EXCEPT ![parent].children = Append(@, id)], child)

-----------------------------------------------------------------------------
(* Property functions *)

\* getprop_: the index in node's property list of the first property whose
\* name is name (strcmp), NULL when there is none
getprop_(ns, node, name) ==
    LET props == ns[node].properties
    IN  IF \E i \in 1..Len(props) : props[i].name = name
        THEN CHOOSE i \in 1..Len(props) :
                props[i].name = name /\ \A j \in 1..(i - 1) : props[j].name # name
        ELSE NULL

qdt_getprop(ns, node, name) == getprop_(ns, node, name)

\* QTAILQ_REMOVE of the element at index i
RemoveAt(s, i) == SubSeq(s, 1, i - 1) \o SubSeq(s, i + 1, Len(s))

\* qdt_delprop unlinking the head of the list instead of the property found
qdt_delprop_head(ns, node, name) ==
    LET prop == getprop_(ns, node, name)
    IN  IF prop # NULL
        THEN [ns EXCEPT ![node].properties = Tail(@)]
        ELSE ns

\* qdt_delprop: unlink and free the property getprop_ finds, if any
qdt_delprop(ns, node, name) ==
    LET prop == getprop_(ns, node, name)
    IN  IF prop # NULL
        THEN [ns EXCEPT ![node].properties = RemoveAt(@, prop)]
        ELSE ns

\* qdt_setprop without its qdt_delprop call
qdt_setprop_nodel(ns, node, name, val, len) ==
    LET prop == [name |-> name, len |-> len, val |-> SubSeq(val, 1, len)]
    IN  [ns EXCEPT ![node].properties = Append(@, prop)]

\* qdt_setprop without its memcpy: the bytes g_malloc0 left
qdt_setprop_nocopy(ns, node, name, val, len) ==
    LET ns1  == qdt_delprop(ns, node, name)
        prop == [name |-> name, len |-> len, val |-> [k \in 1..len |-> 0]]
    IN  [ns1 EXCEPT ![node].properties = Append(@, prop)]

\* qdt_setprop overwriting an existing property where it stands
qdt_setprop_inplace(ns, node, name, val, len) ==
    LET old  == getprop_(ns, node, name)
        prop == [name |-> name, len |-> len, val |-> SubSeq(val, 1, len)]
    IN  IF old # NULL
        THEN [ns EXCEPT ![node].properties[old] = prop]
        ELSE [ns EXCEPT ![node].properties = Append(@, prop)]

\* qdt_setprop: delete, then allocate a property holding the first len
\* bytes read from val and link it at the tail
qdt_setprop(ns, node, name, val, len) ==
    LET ns1  == qdt_delprop(ns, node, name)
        prop == [name |-> name, len |-> len, val |-> SubSeq(val, 1, len)]
    IN  [ns1 EXCEPT ![node].properties = Append(@, prop)]

\* qdt_setprop_string: the characters of val and the terminating NUL
qdt_setprop_string(ns, node, name, val) ==
    qdt_setprop(ns, node, name, Append(val, 0), Len(val) + 1)

RECURSIVE Reverse(_)
Reverse(s) == IF s = <<>> THEN <<>> ELSE Append(Reverse(Tail(s)), Head(s))

\* cpu_to_fdt32 / cpu_to_fdt64: the identity on a big-endian host, a byte
\* swap on a little-endian one
cpu_to_fdt32(x) == IF host_be THEN x ELSE Reverse(x)
cpu_to_fdt64(x) == IF host_be THEN x ELSE Reverse(x)

\* the bytes of an integer object in host memory, lowest address first
\* (what memcpy reads from a uint32_t or uint64_t array element)
MemBytes(x) == IF host_be THEN x ELSE Reverse(x)

RECURSIVE ArrayBytes(_)
ArrayBytes(a) == IF a = <<>> THEN <<>> ELSE MemBytes(Head(a)) \o ArrayBytes(Tail(a))

\* qdt_setprop_cells_ storing val[] as it is, without cpu_to_fdt32
qdt_setprop_cells_noswap(ns, node, name, val, len) ==
    qdt_setprop(ns, node, name, ArrayBytes(val), 4 * len)

\* qdt_setprop_cells_: swap each of the len values into swapval[], then
\* store the sizeof(swapval) bytes of the array
qdt_setprop_cells_(ns, node, name, val, len) ==
    LET swapval == [i \in 1..len |-> cpu_to_fdt32(val[i])]
    IN  qdt_setprop(ns, node, name, ArrayBytes(swapval), 4 * len)

\* qdt_setprop_u64s_: the same with 8-byte values
qdt_setprop_u64s_(ns, node, name, val, len) ==
    LET swapval == [i \in 1..len |-> cpu_to_fdt64(val[i])]
    IN  qdt_setprop(ns, node, name, ArrayBytes(swapval), 8 * len)

\* the qdt_setprop_cells macro: vals[] = { ... }, ARRAY_SIZE(vals)
qdt_setprop_cells(ns, node, name, vals) ==
    qdt_setprop_cells_(ns, node, name, vals, Len(vals))

\* the g_assert of qdt_set_phandle: phandle is neither 0 nor (uint32_t)-1
set_phandle_assert(phandle) ==
    phandle # <<0, 0, 0, 0>> /\ phandle # <<255, 255, 255, 255>>

\* qdt_set_phandle setting "phandle" twice and "linux,phandle" never
qdt_set_phandle_same(ns, node, phandle) ==
    LET ns1 == qdt_setprop_cells(ns, node, "phandle", <<phandle>>)
    IN  qdt_setprop_cells(ns1, node, "phandle", <<phandle>>)

\* qdt_set_phandle after its g_assert
qdt_set_phandle(ns, node, phandle) ==
    LET ns1 == qdt_setprop_cells(ns, node, "linux,phandle", <<phandle>>)
    IN  qdt_setprop_cells(ns1, node, "phandle", <<phandle>>)

-----------------------------------------------------------------------------
(* Whole tree functions *)

\* The encoder (libfdt's sequential-write interface) is outside the module:
\* an oracle [at, cause] says which of its calls, counted from 1, returns the
\* negative value cause; every other call returns 0.  An encoder state is
\* the sequence of the calls made so far, each with the value it returned.
fdt_ret(calls, oracle) == IF Len(calls) + 1 = oracle.at THEN oracle.cause ELSE 0

fdt_call(calls, oracle, fn, name, val, len) ==
    Append(calls, [fn |-> fn, name |-> name, val |-> val, len |-> len,
                   ret |-> fdt_ret(calls, oracle)])

fdt_last_ret(calls) == calls[Len(calls)].ret

\* error_setg(errp, "Error flattening device tree: <step>: %s", fdt_strerror(ret))
flatten_error(step, ret) == [step |-> step, cause |-> ret]

\* qdt_flatten_node: returns the encoder calls made and what was stored
\* through errp (<<>> while *errp is NULL)
RECURSIVE qdt_flatten_node(_, _, _, _)
RECURSIVE flatten_properties(_, _, _, _)
RECURSIVE flatten_children(_, _, _, _, _)
RECURSIVE flatten_children_unchecked(_, _, _, _, _)
RECURSIVE flatten_properties_unnamed(_, _, _, _)

\* flatten_properties passing "" for every prop->name
flatten_properties_unnamed(calls, oracle, props, i) ==
    IF i > Len(props)
    THEN [calls |-> calls, errp |-> <<>>]
    ELSE LET c == fdt_call(calls, oracle, "fdt_property",
                           "", props[i].val, props[i].len)
         IN  IF fdt_last_ret(c) < 0
             THEN [calls |-> c,
                   errp |-> <<flatten_error("fdt_property()", fdt_last_ret(c))>>]
             ELSE flatten_properties_unnamed(c, oracle, props, i + 1)

RECURSIVE flatten_properties_unchecked(_, _, _, _)

\* flatten_properties going on after a failed fdt_property
flatten_properties_unchecked(calls, oracle, props, i) ==
    IF i > Len(props)
    THEN [calls |-> calls, errp |-> <<>>]
    ELSE flatten_properties_unchecked(
             fdt_call(calls, oracle, "fdt_property",
                      props[i].name, props[i].val, props[i].len),
             oracle, props, i + 1)

\* the QTAILQ_FOREACH over node->properties, from the i-th property on
flatten_properties(calls, oracle, props, i) ==
    IF i > Len(props)
    THEN [calls |-> calls, errp |-> <<>>]
    ELSE LET c == fdt_call(calls, oracle, "fdt_property",
                           props[i].name, props[i].val, props[i].len)
         IN  IF fdt_last_ret(c) < 0
             THEN [calls |-> c,
                   errp |-> <<flatten_error("fdt_property()", fdt_last_ret(c))>>]
             ELSE flatten_properties(c, oracle, props, i + 1)

\* the loop over node->children without its `if (local_err)`
flatten_children_unchecked(calls, oracle, ns, kids, i) ==
    IF i > Len(kids)
    THEN [calls |-> calls, errp |-> <<>>]
    ELSE LET r == qdt_flatten_node(calls, oracle, ns, kids[i])
         IN  flatten_children_unchecked(r.calls, oracle, ns, kids, i + 1)

\* the QTAILQ_FOREACH over node->children, from the i-th child on
flatten_children(calls, oracle, ns, kids, i) ==
    IF i > Len(kids)
    THEN [calls |-> calls, errp |-> <<>>]
    ELSE LET r == qdt_flatten_node(calls, oracle, ns, kids[i])
             local_err == r.errp
         IN  IF local_err # <<>>
             THEN [calls |-> r.calls, errp |-> local_err]
             ELSE flatten_children(r.calls, oracle, ns, kids, i + 1)

\* qdt_flatten_node with the two loops in the other order
qdt_flatten_node_children_first(calls, oracle, ns, node) ==
    LET c1 == fdt_call(calls, oracle, "fdt_begin_node", ns[node].name, <<>>, 0)
    IN  IF fdt_last_ret(c1) < 0
        THEN [calls |-> c1,
              errp |-> <<flatten_error("fdt_begin_node()", fdt_last_ret(c1))>>]
        ELSE
        LET k == flatten_children(c1, oracle, ns, ns[node].children, 1)
        IN  IF k.errp # <<>> THEN k
            ELSE
            LET p == flatten_properties(k.calls, oracle, ns[node].properties, 1)
            IN  IF p.errp # <<>> THEN p
                ELSE
                LET c2 == fdt_call(p.calls, oracle, "fdt_end_node", <<>>, <<>>, 0)
                IN  IF fdt_last_ret(c2) < 0
                    THEN [calls |-> c2,
                          errp |-> <<flatten_error("fdt_end_node()",
                                                   fdt_last_ret(c2))>>]
                    ELSE [calls |-> c2, errp |-> <<>>]

\* qdt_flatten_node without its fdt_end_node
qdt_flatten_node_no_end(calls, oracle, ns, node) ==
    LET c1 == fdt_call(calls, oracle, "fdt_begin_node", ns[node].name, <<>>, 0)
    IN  IF fdt_last_ret(c1) < 0
        THEN [calls |-> c1,
              errp |-> <<flatten_error("fdt_begin_node()", fdt_last_ret(c1))>>]
        ELSE
        LET p == flatten_properties(c1, oracle, ns[node].properties, 1)
        IN  IF p.errp # <<>> THEN p
            ELSE flatten_children(p.calls, oracle, ns, ns[node].children, 1)

qdt_flatten_node(calls, oracle, ns, node) ==
    LET c1 == fdt_call(calls, oracle, "fdt_begin_node", ns[node].name, <<>>, 0)
    IN  IF fdt_last_ret(c1) < 0
        THEN [calls |-> c1,
              errp |-> <<flatten_error("fdt_begin_node()", fdt_last_ret(c1))>>]
        ELSE
        LET p == flatten_properties(c1, oracle, ns[node].properties, 1)
        IN  IF p.errp # <<>> THEN p
            ELSE
            LET k == flatten_children(p.calls, oracle, ns, ns[node].children, 1)
            IN  IF k.errp # <<>> THEN k
                ELSE
                LET c2 == fdt_call(k.calls, oracle, "fdt_end_node", <<>>, <<>>, 0)
                IN  IF fdt_last_ret(c2) < 0
                    THEN [calls |-> c2,
                          errp |-> <<flatten_error("fdt_end_node()",
                                                   fdt_last_ret(c2))>>]
                    ELSE [calls |-> c2, errp |-> <<>>]

\* qdt_flatten without its assert
flatten_assert_none(ns, root) == TRUE

\* the assert of qdt_flatten
flatten_assert(ns, root) == ns[root].parent = NULL

\* the exits of qdt_flatten: `return fdt` and `fail: g_free(fdt); return NULL`
flatten_return(calls) ==
    [fdt |-> TRUE, freed |-> FALSE, errp |-> <<>>, calls |-> calls]
flatten_fail(calls, errp) ==
    [fdt |-> FALSE, freed |-> TRUE, errp |-> errp, calls |-> calls]

\* qdt_flatten after its assert: whether a buffer is returned, whether the
\* buffer was freed, what was stored through errp, and the encoder calls made
qdt_flatten(ns, root, oracle) ==
    LET c1 == fdt_call(<<>>, oracle, "fdt_create", <<>>, <<>>, 0)
    IN  IF fdt_last_ret(c1) < 0
        THEN flatten_fail(c1, <<flatten_error("fdt_create()", fdt_last_ret(c1))>>)
        ELSE
        LET c2 == fdt_call(c1, oracle, "fdt_finish_reservemap", <<>>, <<>>, 0)
        IN  IF fdt_last_ret(c2) < 0
            THEN flatten_fail(c2, <<flatten_error("fdt_finish_reservemap()",
                                                  fdt_last_ret(c2))>>)
            ELSE
            LET r == qdt_flatten_node(c2, oracle, ns, root)
                local_err == r.errp
            IN  IF local_err # <<>>
                THEN flatten_fail(r.calls, local_err)
                ELSE
                LET c3 == fdt_call(r.calls, oracle, "fdt_finish", <<>>, <<>>, 0)
                IN  IF fdt_last_ret(c3) < 0
                    THEN flatten_fail(c3, <<flatten_error("fdt_finish()",
                                                          fdt_last_ret(c3))>>)
                    ELSE flatten_return(c3)

-----------------------------------------------------------------------------
(* Inputs *)

\* node names offered to qdt_new_node and qdt_add_subnode: "", "a", "ab",
\* and two that hold the separator
NodeNames == { <<>>, <<"a">>, <<"a", "b">>, <<"a", "/">>, <<"/", "b">> }

\* the names offered to qdt_new_node for further roots
RootNames == { <<>>, <<"a", "/">> }

\* path segments, and paths of segments joined by "/": relative ones of one
\* or two segments, absolute ones of up to three after the leading "/", and
\* two that do not start with "/"
Segs == { <<>>, <<"a">>, <<"a", "b">> }

Join(S, T) == { s \o <<"/">> \o t : s \in S, t \in T }

RelPaths == Segs \cup Join(Segs, Segs)
AbsPaths == Join({ <<>> }, RelPaths \cup Join(Segs, Join(Segs, Segs)))
RootPaths == AbsPaths \cup { <<>>, <<"a">> }

PropNames == { "foo", "bar", "baz" }
PhandleNames == { "linux,phandle", "phandle" }

\* byte strings passed to qdt_setprop
Vals == { <<>>, <<1, 2>>, <<0, 0>> }

\* C strings passed to qdt_setprop_string: "" and "x"
Strings == { <<>>, <<120>> }

\* 32-bit values offered as phandles: 0, 5, 0x01020304, 0xFFFFFFFF
U32s == { <<0, 0, 0, 0>>, <<0, 0, 0, 5>>, <<1, 2, 3, 4>>, <<255, 255, 255, 255>> }

\* 32-bit values offered as cells: 5, 0x01020304, 0x80000001
Cells == { <<0, 0, 0, 5>>, <<1, 2, 3, 4>>, <<128, 0, 0, 1>> }

\* 64-bit values: 5, 0x0102030405060708
U64s == { <<0, 0, 0, 0, 0, 0, 0, 5>>, <<1, 2, 3, 4, 5, 6, 7, 8>> }

SeqsUpTo(S, n) == UNION { [1..k -> S] : k \in 0..n }

\* encoder failures: which call fails (0: none) and fdt_strerror's cause,
\* -FDT_ERR_NOSPACE (-3) or -FDT_ERR_BADSTATE (-7)
Causes == { -3, -7 }
RECURSIVE NumProps(_)
NumProps(ns) ==
    IF ns = <<>> THEN 0 ELSE Len(Head(ns).properties) + NumProps(Tail(ns))
MaxCalls(ns) == 3 + 2 * Len(ns) + NumProps(ns)
Oracles(ns) ==
    { [at |-> 0, cause |-> 0] } \cup
    { [at |-> k, cause |-> c] : k \in 1..MaxCalls(ns), c \in Causes }

NodeIds == 1..Len(nodes)

-----------------------------------------------------------------------------
(* Calls *)

\* old: for a property call, what getprop_ finds for name before the call
Call(op, node, name, val, old, ret) ==
    [op |-> op, node |-> node, name |-> name, val |-> val, old |-> old, ret |-> ret]

\* a failed g_assert()/assert(): abort(), nothing else changes
Abort(op, node, name, val) ==
    /\ aborted' = TRUE
    /\ last' = Call(op, node, name, val, NULL, NULL)
    /\ UNCHANGED <<nodes, host_be>>

Call_qdt_new_node(name) ==
    /\ ~aborted
    /\ IF new_node_assert(name)
       THEN /\ nodes' = Append(nodes, qdt_new_node(name))
            /\ last' = Call("qdt_new_node", NULL, name, <<>>, NULL, Len(nodes) + 1)
            /\ UNCHANGED <<aborted, host_be>>
       ELSE Abort("qdt_new_node", NULL, name, <<>>)

Call_qdt_add_subnode(parent, name) ==
    /\ ~aborted
    /\ IF new_node_assert(name)
       THEN /\ nodes' = qdt_add_subnode(nodes, parent, name)
            /\ last' = Call("qdt_add_subnode", parent, name, <<>>, NULL,
                            Len(nodes) + 1)
            /\ UNCHANGED <<aborted, host_be>>
       ELSE Abort("qdt_add_subnode", parent, name, <<>>)

Call_qdt_get_node_relative(node, path) ==
    /\ ~aborted
    /\ IF ~qdt_get_node_relative(nodes, node, path).abort
       THEN /\ last' = Call("qdt_get_node_relative", node, path, <<>>, NULL,
                            qdt_get_node_relative(nodes, node, path))
            /\ UNCHANGED <<nodes, aborted, host_be>>
       ELSE Abort("qdt_get_node_relative", node, path, <<>>)

Call_qdt_get_node(root, path) ==
    /\ ~aborted
    /\ IF get_node_assert(nodes, root, path) /\ ~qdt_get_node(nodes, root, path).abort
       THEN /\ last' = Call("qdt_get_node", root, path, <<>>, NULL,
                            qdt_get_node(nodes, root, path))
            /\ UNCHANGED <<nodes, aborted, host_be>>
       ELSE Abort("qdt_get_node", root, path, <<>>)

Call_qdt_getprop(node, name) ==
    /\ ~aborted
    /\ last' = Call("qdt_getprop", node, name, <<>>, getprop_(nodes, node, name),
                    qdt_getprop(nodes, node, name))
    /\ UNCHANGED <<nodes, aborted, host_be>>

Call_qdt_delprop(node, name) ==
    /\ ~aborted
    /\ nodes' = qdt_delprop(nodes, node, name)
    /\ last' = Call("qdt_delprop", node, name, <<>>, getprop_(nodes, node, name), NULL)
    /\ UNCHANGED <<aborted, host_be>>

\* every setter returns the property it linked: the last of the node's list
Set(op, node, name, val, ns) ==
    /\ nodes' = ns
    /\ last' = Call(op, node, name, val, getprop_(nodes, node, name),
                    Len(ns[node].properties))
    /\ UNCHANGED <<aborted, host_be>>

\* val points to a buffer of the caller, len is its size
Call_qdt_setprop(node, name, val) ==
    /\ ~aborted
    /\ Set("qdt_setprop", node, name, val,
           qdt_setprop(nodes, node, name, val, Len(val)))

Call_qdt_setprop_string(node, name, val) ==
    /\ ~aborted
    /\ Set("qdt_setprop_string", node, name, val,
           qdt_setprop_string(nodes, node, name, val))

Call_qdt_setprop_cells_(node, name, val) ==
    /\ ~aborted
    /\ Set("qdt_setprop_cells_", node, name, val,
           qdt_setprop_cells_(nodes, node, name, val, Len(val)))

Call_qdt_setprop_u64s_(node, name, val) ==
    /\ ~aborted
    /\ Set("qdt_setprop_u64s_", node, name, val,
           qdt_setprop_u64s_(nodes, node, name, val, Len(val)))

Call_qdt_set_phandle(node, phandle) ==
    /\ ~aborted
    /\ IF set_phandle_assert(phandle)
       THEN /\ nodes' = qdt_set_phandle(nodes, node, phandle)
            /\ last' = Call("qdt_set_phandle", node, "phandle", phandle,
                            getprop_(nodes, node, "phandle"), NULL)
            /\ UNCHANGED <<aborted, host_be>>
       ELSE Abort("qdt_set_phandle", node, "phandle", phandle)

\* qdt_setprop_dup(node, name, oldprop), oldprop the i-th property of src.
\* qdt_setprop frees node's property called name before its memcpy reads
\* oldprop->val; when that property is oldprop itself the read is of freed
\* memory, which holds the old bytes still or, the allocator having handed
\* the block to g_malloc0, zeroes.
Zeros(n) == [k \in 1..n |-> 0]

dup_source(ns, node, name, src, i) ==
    LET old == ns[src].properties[i]
    IN  IF src = node /\ old.name = name
        THEN { old.val, Zeros(old.len) }
        ELSE { old.val }

Call_qdt_setprop_dup(node, name, src, i) ==
    /\ ~aborted
    /\ i \in 1..Len(nodes[src].properties)
    /\ \E val \in dup_source(nodes, node, name, src, i) :
          Set("qdt_setprop_dup", node, name, <<src, i>>,
              qdt_setprop(nodes, node, name, val, nodes[src].properties[i].len))

\* qdt_flatten unlinking the properties of root as it goes
Call_qdt_flatten_consuming(root, oracle) ==
    /\ ~aborted
    /\ IF flatten_assert(nodes, root)
       THEN /\ last' = Call("qdt_flatten", root, <<>>, oracle, NULL,
                            qdt_flatten(nodes, root, oracle))
            /\ nodes' = [nodes EXCEPT ![root].properties = <<>>]
            /\ UNCHANGED <<aborted, host_be>>
       ELSE Abort("qdt_flatten", root, <<>>, oracle)

Call_qdt_flatten(root, oracle) ==
    /\ ~aborted
    /\ IF flatten_assert(nodes, root)
       THEN /\ last' = Call("qdt_flatten", root, <<>>, oracle, NULL,
                            qdt_flatten(nodes, root, oracle))
            /\ UNCHANGED <<nodes, aborted, host_be>>
       ELSE Abort("qdt_flatten", root, <<>>, oracle)

-----------------------------------------------------------------------------
(* Specifications *)

NoCall == Call("", NULL, <<>>, <<>>, NULL, NULL)

\* the state after qdt_new_tree(): one root, named ""
Init ==
    /\ nodes = << qdt_new_node(<<>>) >>
    /\ last = NoCall
    /\ aborted = FALSE
    /\ host_be = FALSE

\* Nodes and paths
NextNode ==
    \/ \E name \in RootNames :
          Len(nodes) < MaxNodes /\ Call_qdt_new_node(name)
    \/ \E parent \in NodeIds, name \in NodeNames :
          Len(nodes) < MaxNodes /\ Call_qdt_add_subnode(parent, name)
    \/ \E node \in NodeIds, path \in RelPaths : Call_qdt_get_node_relative(node, path)
    \/ \E root \in NodeIds, path \in RootPaths : Call_qdt_get_node(root, path)

SpecNode == Init /\ [][NextNode]_vars

\* Properties of the two nodes of the tree built by
\* qdt_add_subnode(qdt_new_tree(), "a")
InitProp ==
    /\ nodes = qdt_add_subnode(<< qdt_new_node(<<>>) >>, 1, <<"a">>)
    /\ last = NoCall
    /\ aborted = FALSE
    /\ host_be = FALSE

\* the names offered on a node: all of PropNames on the root, "foo" on the
\* child (the nodes' property lists are independent of each other)
NamesOn(node) == IF node = 1 THEN PropNames ELSE { "foo" }

Next ==
    \/ \E node \in NodeIds : \E name \in NamesOn(node) : Call_qdt_getprop(node, name)
    \/ \E node \in NodeIds : \E name \in NamesOn(node) : Call_qdt_delprop(node, name)
    \/ \E node \in NodeIds : \E name \in NamesOn(node), val \in Vals :
          Call_qdt_setprop(node, name, val)
    \/ \E node \in NodeIds : \E name \in NamesOn(node), src \in NodeIds, i \in 1..3 :
          Call_qdt_setprop_dup(node, name, src, i)

Spec == InitProp /\ [][Next]_vars

\* Every setter, on both nodes, with one value each
AllNames == { "foo" } \cup PhandleNames

NextAll ==
    \/ \E node \in NodeIds, name \in AllNames : Call_qdt_delprop(node, name)
    \/ \E node \in NodeIds : Call_qdt_setprop(node, "foo", <<0>>)
    \/ \E node \in NodeIds : Call_qdt_setprop_string(node, "foo", <<>>)
    \/ \E node \in NodeIds : Call_qdt_setprop_cells_(node, "foo", << <<0, 0, 0, 5>> >>)
    \/ \E node \in NodeIds :
          Call_qdt_setprop_u64s_(node, "foo", << <<0, 0, 0, 0, 0, 0, 0, 5>> >>)
    \/ \E node \in NodeIds, phandle \in { <<0, 0, 0, 0>>, <<0, 0, 0, 5>> } :
          Call_qdt_set_phandle(node, phandle)
    \/ \E node \in NodeIds, src \in NodeIds, i \in 1..3 :
          Call_qdt_setprop_dup(node, "foo", src, i)

SpecAll == InitProp /\ [][NextAll]_vars

\* Cells, 64-bit values and phandles of one node, on either kind of host
InitCells ==
    /\ nodes = << qdt_new_node(<<>>) >>
    /\ last = NoCall
    /\ aborted = FALSE
    /\ host_be \in BOOLEAN

CellNames == { "reg" } \cup PhandleNames

NextCells ==
    \/ \E val \in SeqsUpTo(Cells, MaxCells) : Call_qdt_setprop_cells_(1, "reg", val)
    \/ \E val \in SeqsUpTo(U64s, MaxCells) : Call_qdt_setprop_u64s_(1, "reg", val)
    \/ \E phandle \in U32s : Call_qdt_set_phandle(1, phandle)
    \/ \E name \in CellNames : Call_qdt_delprop(1, name)
    \/ \E name \in PhandleNames : Call_qdt_setprop(1, name, <<1, 2>>)

SpecCells == InitCells /\ [][NextCells]_vars

\* Flattening the trees grown from qdt_new_tree()
NextFlat ==
    \/ \E parent \in NodeIds, name \in { <<"a">>, <<"b">> } :
          Len(nodes) < MaxFlatNodes /\ Call_qdt_add_subnode(parent, name)
    \/ \E node \in NodeIds : \E name \in NamesOn(node) \ { "baz" } :
          Call_qdt_setprop(node, name, <<1, 2>>)
    \/ \E root \in NodeIds, oracle \in Oracles(nodes) : Call_qdt_flatten(root, oracle)

SpecFlat == Init /\ [][NextFlat]_vars

\* Building a tree, looking nodes and properties up in it and flattening it.
\* Children are called "a" or "", more than one of a parent by the same name
\* included; the paths are "", "a", "a/", "a/a", "/a" and "/", "/a", "/a/",
\* "/a/a", "//a", and "" and "a" that do not start with "/".
TreeNames == { <<>>, <<"a">> }
TreeRelPaths == { <<>>, <<"a">>, <<"a", "/">>, <<"a", "/", "a">>, <<"/", "a">> }
TreeAbsPaths == Join({ <<>> }, TreeRelPaths) \cup { <<>>, <<"a">> }

NextTree ==
    \/ \E parent \in NodeIds, name \in TreeNames :
          Len(nodes) < MaxFlatNodes /\ Call_qdt_add_subnode(parent, name)
    \/ \E node \in NodeIds : Call_qdt_setprop(node, "foo", <<1, 2>>)
    \/ \E node \in NodeIds, name \in { "foo", "bar" } : Call_qdt_getprop(node, name)
    \/ \E node \in NodeIds, path \in TreeRelPaths :
          Call_qdt_get_node_relative(node, path)
    \/ \E root \in NodeIds, path \in TreeAbsPaths : Call_qdt_get_node(root, path)
    \/ \E root \in NodeIds, oracle \in Oracles(nodes) : Call_qdt_flatten(root, oracle)

SpecTree == Init /\ [][NextTree]_vars

\* Children of the same name: the tree built by qdt_add_subnode(root, "a")
\* called twice on the root of qdt_new_tree(), grown by further children
\* called "a" or "b", looked up by "a", "b", "a/a", "a/b" and the same
\* below "/", and flattened
InitDup ==
    /\ nodes = qdt_add_subnode(qdt_add_subnode(<< qdt_new_node(<<>>) >>, 1, <<"a">>),
                               1, <<"a">>)
    /\ last = NoCall
    /\ aborted = FALSE
    /\ host_be = FALSE

DupNames == { <<"a">>, <<"b">> }
DupRelPaths == DupNames \cup Join({ <<"a">> }, DupNames)
DupAbsPaths == Join({ <<>> }, DupRelPaths)

NextDup ==
    \/ \E parent \in NodeIds, name \in DupNames :
          Len(nodes) < MaxDupNodes /\ Call_qdt_add_subnode(parent, name)
    \/ \E node \in NodeIds, path \in DupRelPaths :
          Call_qdt_get_node_relative(node, path)
    \/ \E path \in DupAbsPaths : Call_qdt_get_node(1, path)
    \/ \E oracle \in Oracles(nodes) : Call_qdt_flatten(1, oracle)

SpecDup == InitDup /\ [][NextDup]_vars

-----------------------------------------------------------------------------
(* Properties of the property functions *)

SetOps == { "qdt_setprop", "qdt_setprop_string", "qdt_setprop_cells_",
            "qdt_setprop_u64s_", "qdt_setprop_dup" }

\* how many properties of the list are called name
Count(props, name) == Cardinality({ i \in 1..Len(props) : props[i].name = name })

\* the properties of the list not called name, in order
Others(props, name) == SelectSeq(props, LAMBDA p : p.name # name)

\* what qdt_getprop(node, name) hands the caller: nothing, or a length and bytes
Got(ns, node, name) ==
    LET i == qdt_getprop(ns, node, name)
    IN  IF i = NULL THEN <<>>
        ELSE << ns[node].properties[i].len, ns[node].properties[i].val >>

\* the call sets or deletes the property name of node
Touches(call, node, name) ==
    /\ call.node = node
    /\ \/ call.op \in SetOps \cup { "qdt_delprop" } /\ call.name = name
       \/ call.op = "qdt_set_phandle" /\ name \in PhandleNames

\* C1: in every state reached by qdt_setprop, qdt_delprop, qdt_setprop_string,
\* qdt_setprop_cells_, qdt_setprop_u64s_, qdt_set_phandle and qdt_setprop_dup
\* calls on any nodes, the names in each node's property list are pairwise
\* distinct.
C1_DistinctNames ==
    \A n \in NodeIds :
        \A i, j \in 1..Len(nodes[n].properties) :
            i # j => nodes[n].properties[i].name # nodes[n].properties[j].name

\* C1: a setter has just replaced the first of a node's three properties
C1_Witness ==
    /\ last.op \in SetOps \cup { "qdt_set_phandle" }
    /\ last.old = 1
    /\ Len(nodes[last.node].properties) = 3
    /\ Len(nodes[3 - last.node].properties) > 0

\* C2: right after qdt_setprop(n, name, bytes), qdt_getprop(n, name) finds a
\* property whose length is that of bytes and whose value is bytes; and no
\* call that neither sets nor deletes name on n changes what qdt_getprop(n,
\* name) finds.
C2_Post ==
    last.op = "qdt_setprop" =>
        Got(nodes, last.node, last.name) = << Len(last.val), last.val >>

C2_Frame ==
    \A n \in NodeIds : \A name \in PropNames :
        ~Touches(last', n, name) => Got(nodes', n, name) = Got(nodes, n, name)

C2_SetThenGet == [][C2_Post' /\ C2_Frame]_vars

\* C2: qdt_setprop has replaced the root's "foo" by two bytes that are not
\* zero, the root holds two more properties and the child a different "foo"
C2_Witness ==
    /\ last.op = "qdt_setprop" /\ last.node = 1 /\ last.name = "foo"
    /\ last.val = <<1, 2>>
    /\ last.old # NULL
    /\ Len(nodes[1].properties) = 3
    /\ Got(nodes, 2, "foo") = << 0, <<>> >>

\* C3: qdt_setprop(n, name, b2) on a node that holds a property called name
\* leaves exactly one property called name on n, with value b2, as the last
\* of n's list; the other properties of n keep their values and relative
\* order, and no other node changes.
C3_Replace ==
    (last'.op = "qdt_setprop" /\ getprop_(nodes, last'.node, last'.name) # NULL) =>
        LET n    == last'.node
            old  == nodes[n].properties
            new  == nodes'[n].properties
        IN  /\ Count(new, last'.name) = 1
            /\ new[Len(new)] = [name |-> last'.name, len |-> Len(last'.val),
                                val |-> last'.val]
            /\ Others(new, last'.name) = Others(old, last'.name)
            /\ Len(new) = Len(old)
            /\ \A m \in NodeIds : m # n => nodes'[m] = nodes[m]
            /\ nodes'[n] = [nodes[n] EXCEPT !.properties = new]

C3_SetTwice == [][C3_Replace]_vars

\* C3: qdt_setprop has moved the first of the root's three properties to the
\* end with a new value
C3_Witness ==
    /\ last.op = "qdt_setprop" /\ last.node = 1
    /\ last.old = 1
    /\ Len(nodes[1].properties) = 3
    /\ last.val = <<1, 2>>
    /\ nodes[1].properties[1].val # nodes[1].properties[2].val

\* C4: qdt_delprop(n, name) on a node with no property called name changes
\* nothing and does not abort; on a node with one, qdt_getprop(n, name) finds
\* nothing afterwards and the other properties of n keep their values and
\* relative order.
C4_Delete ==
    last'.op = "qdt_delprop" =>
        LET n == last'.node
        IN  /\ ~aborted'
            /\ IF getprop_(nodes, n, last'.name) = NULL
               THEN nodes' = nodes
               ELSE /\ Got(nodes', n, last'.name) = <<>>
                    /\ Others(nodes'[n].properties, last'.name)
                         = Others(nodes[n].properties, last'.name)
                    /\ Len(nodes'[n].properties) = Len(nodes[n].properties) - 1
                    /\ \A m \in NodeIds : m # n => nodes'[m] = nodes[m]

C4_DeleteProperty == [][C4_Delete]_vars

\* C4: qdt_delprop has removed the second of the root's three properties
C4_Witness ==
    /\ last.op = "qdt_delprop" /\ last.node = 1
    /\ last.old = 2
    /\ Len(nodes[1].properties) = 2
    /\ Len(nodes[2].properties) = 1

-----------------------------------------------------------------------------
(* Properties of the node functions *)

\* the segments of a path: the pieces between its separators
RECURSIVE SplitFrom(_, _)
SplitFrom(p, cur) ==
    IF p = <<>> THEN << cur >>
    ELSE IF Head(p) = "/" THEN << cur >> \o SplitFrom(Tail(p), <<>>)
         ELSE SplitFrom(Tail(p), Append(cur, Head(p)))

Split(p) == SplitFrom(p, <<>>)

\* the children of n called seg
Named(ns, n, seg) ==
    { ns[n].children[i] : i \in { j \in 1..Len(ns[n].children) :
                                    ns[ns[n].children[j]].name = seg } }

\* the node reached from n by following children called segs[1], segs[2], ...
\* (NULL when a segment names no child)
RECURSIVE Follow(_, _, _)
Follow(ns, n, segs) ==
    IF segs = <<>> THEN n
    ELSE IF Named(ns, n, Head(segs)) = {} THEN NULL
         ELSE Follow(ns, CHOOSE c \in Named(ns, n, Head(segs)) : TRUE, Tail(segs))

\* the nodes of the tree below and including r
RECURSIVE TreeOf(_, _)
TreeOf(ns, r) ==
    { r } \cup UNION { TreeOf(ns, ns[r].children[i]) : i \in 1..Len(ns[r].children) }

\* below r, sibling names are pairwise distinct and none is empty
WellNamed(ns, r) ==
    \A n \in TreeOf(ns, r) :
        /\ \A i \in 1..Len(ns[n].children) : ns[ns[n].children[i]].name # <<>>
        /\ \A i, j \in 1..Len(ns[n].children) :
              i # j => ns[ns[n].children[i]].name # ns[ns[n].children[j]].name

\* C5: in a tree whose sibling names are pairwise distinct and not empty,
\* qdt_get_node(root, "/" s1 "/" ... "/" sk) returns the node reached by
\* following the children called s1..sk, a child matching a segment only when
\* its name is the segment; when a segment names no child the result is NULL
\* and get_subnode is called for no later segment.
C5_PathLookup ==
    (last.op = "qdt_get_node" /\ ~aborted /\ WellNamed(nodes, last.node)) =>
        LET segs == Split(StrFrom(last.name, 2))
            made == last.ret.lookups
        IN  /\ last.ret.node = Follow(nodes, last.node, segs)
            /\ Len(made) <= Len(segs)
            /\ \A j \in 1..Len(made) :
                  /\ made[j] = << Follow(nodes, last.node, SubSeq(segs, 1, j - 1)),
                                 segs[j] >>
                  /\ made[j][1] # NULL
            /\ Len(made) < Len(segs) =>
                  Follow(nodes, last.node, SubSeq(segs, 1, Len(made))) = NULL

\* C5: "/a/ab/a" looked up in a tree whose root has the child "ab" and no
\* child "a": not found after one get_subnode call
C5_Witness ==
    /\ last.op = "qdt_get_node" /\ ~aborted /\ WellNamed(nodes, last.node)
    /\ last.name = <<"/", "a", "/", "a", "b", "/", "a">>
    /\ Named(nodes, last.node, <<"a", "b">>) # {}
    /\ last.ret.node = NULL
    /\ Len(last.ret.lookups) = 1

\* C9: qdt_new_node and qdt_add_subnode called with a name that holds "/"
\* abort and leave every node, the parent's child list included, as it was;
\* so no node's name ever holds "/".
C9_NoSeparator ==
    \A n \in NodeIds : \A i \in 1..Len(nodes[n].name) : nodes[n].name[i] # "/"

C9_Refused ==
    (/\ last'.op \in { "qdt_new_node", "qdt_add_subnode" }
     /\ \E i \in 1..Len(last'.name) : last'.name[i] = "/")
        => aborted' /\ nodes' = nodes

C9_SeparatorInName == [][C9_NoSeparator /\ C9_NoSeparator' /\ C9_Refused]_vars

\* C9: qdt_add_subnode(parent, "a/") has aborted on a parent that has a child
C9_Witness ==
    /\ aborted
    /\ last.op = "qdt_add_subnode" /\ last.name = <<"a", "/">>
    /\ Len(nodes[last.node].children) > 0

-----------------------------------------------------------------------------
(* Properties of the whole tree functions *)

\* an encoder call without the value it returned
Event(fn, name, val, len) == [fn |-> fn, name |-> name, val |-> val, len |-> len]
Events(calls) ==
    [i \in 1..Len(calls) |->
        Event(calls[i].fn, calls[i].name, calls[i].val, calls[i].len)]

NodeCalls == { "fdt_begin_node", "fdt_property", "fdt_end_node" }

\* Pre(n): begin(n), n's properties in list order, Pre(c) for each child c of
\* n in list order, end
RECURSIVE Pre(_, _)
RECURSIVE PreAll(_, _)
PreAll(ns, kids) ==
    IF kids = <<>> THEN <<>> ELSE Pre(ns, Head(kids)) \o PreAll(ns, Tail(kids))
Pre(ns, n) ==
    << Event("fdt_begin_node", ns[n].name, <<>>, 0) >>
    \o [i \in 1..Len(ns[n].properties) |->
           Event("fdt_property", ns[n].properties[i].name,
                 ns[n].properties[i].val, ns[n].properties[i].len)]
    \o PreAll(ns, ns[n].children)
    \o << Event("fdt_end_node", <<>>, <<>>, 0) >>

Failed(calls) == { i \in 1..Len(calls) : calls[i].ret < 0 }

\* C6: when no encoder call fails, the node-begin, property and node-end
\* calls qdt_flatten(root) makes are Pre(root), in that order.
C6_Preorder ==
    (last.op = "qdt_flatten" /\ ~aborted /\ Failed(last.ret.calls) = {}) =>
        Events(SelectSeq(last.ret.calls, LAMBDA c : c.fn \in NodeCalls))
            = Pre(nodes, last.node)

\* C6: a flattening without failure of a root with two properties and two
\* children, the first child with a property
C6_Witness ==
    /\ last.op = "qdt_flatten" /\ ~aborted /\ Failed(last.ret.calls) = {}
    /\ Len(nodes[1].properties) >= 2
    /\ nodes[1].children = <<2, 3>>
    /\ Len(nodes[2].properties) = 1

\* the step an error message names
StepOf(fn) ==
    CASE fn = "fdt_create" -> "fdt_create()"
      [] fn = "fdt_finish_reservemap" -> "fdt_finish_reservemap()"
      [] fn = "fdt_begin_node" -> "fdt_begin_node()"
      [] fn = "fdt_property" -> "fdt_property()"
      [] fn = "fdt_end_node" -> "fdt_end_node()"
      [] fn = "fdt_finish" -> "fdt_finish()"

\* every encoder step of a flattening of root
AllSteps(ns, root) ==
    << Event("fdt_create", <<>>, <<>>, 0),
       Event("fdt_finish_reservemap", <<>>, <<>>, 0) >>
    \o Pre(ns, root)
    \o << Event("fdt_finish", <<>>, <<>>, 0) >>

\* C7: qdt_flatten returns the buffer exactly when every encoder step was
\* made and succeeded; when a step fails it returns NULL, the buffer is
\* freed, and one error is stored through errp, naming the first failing step
\* and its cause.
C7_BufferOrError ==
    (last.op = "qdt_flatten" /\ ~aborted) =>
        LET r == last.ret
            first == CHOOSE i \in Failed(r.calls) :
                        \A j \in Failed(r.calls) : i <= j
        IN  /\ r.fdt <=> (/\ Failed(r.calls) = {}
                          /\ Events(r.calls) = AllSteps(nodes, last.node))
            /\ r.fdt => ~r.freed /\ r.errp = <<>>
            /\ Failed(r.calls) # {} =>
                  /\ ~r.fdt /\ r.freed
                  /\ r.errp = << [step |-> StepOf(r.calls[first].fn),
                                  cause |-> r.calls[first].ret] >>

\* C7: fdt_property() has failed with -FDT_ERR_NOSPACE on the property of a
\* node two levels below the root
C7_Witness ==
    /\ last.op = "qdt_flatten" /\ ~aborted
    /\ Len(nodes) = 3 /\ nodes[3].parent = 2 /\ nodes[2].parent = 1
    /\ Len(nodes[3].properties) = 1
    /\ last.ret.errp = << [step |-> "fdt_property()", cause |-> -3] >>
    /\ Cardinality({ i \in 1..Len(last.ret.calls) :
                        last.ret.calls[i].fn = "fdt_begin_node" }) = 3
    /\ ~last.ret.fdt

-----------------------------------------------------------------------------
(* Properties of the cell functions *)

\* (v >> 8k) & 255 of a value written by its digits
Byte(v, k) == v[Len(v) - k]

\* the big-endian encoding of a w-byte value: most significant byte first
BigEndian(v, w) == [j \in 1..w |-> Byte(v, w - j)]

\* C8: qdt_set_phandle(n, v) with v = 0 or v = 0xFFFFFFFF aborts and changes
\* no property; with any other v it leaves n with exactly one property
\* "linux,phandle" and exactly one "phandle", each of length 4 and holding
\* the big-endian encoding of v, whatever n held before.
C8_Phandle ==
    last'.op = "qdt_set_phandle" =>
        IF last'.val \in { <<0, 0, 0, 0>>, <<255, 255, 255, 255>> }
        THEN aborted' /\ nodes' = nodes
        ELSE /\ ~aborted'
             /\ \A name \in PhandleNames :
                   /\ Count(nodes'[last'.node].properties, name) = 1
                   /\ Got(nodes', last'.node, name) = << 4, BigEndian(last'.val, 4) >>

C8_SetPhandle == [][C8_Phandle]_vars

\* C8: on a little-endian host qdt_set_phandle(n, 0x01020304) has replaced an
\* earlier "phandle" of a node that holds "reg" as well
C8_Witness ==
    /\ last.op = "qdt_set_phandle" /\ ~aborted /\ ~host_be
    /\ last.val = <<1, 2, 3, 4>>
    /\ last.old # NULL
    /\ Len(nodes[1].properties) = 3

\* C10: qdt_setprop_cells_(n, name, [v1..vk]) stores a property of length 4k
\* whose bytes 4i..4i+3 are (vi >> 24) & 255, (vi >> 16) & 255, (vi >> 8) &
\* 255, vi & 255, on either kind of host; qdt_setprop_u64s_ does the same
\* with 8 bytes a value and length 8k.
Encoded(op, w) ==
    last.op = op =>
        LET k == Len(last.val)
            i == qdt_getprop(nodes, last.node, last.name)
            p == nodes[last.node].properties[i]
        IN  /\ i # NULL
            /\ p.len = w * k
            /\ Len(p.val) = w * k
            /\ \A c \in 1..k : \A j \in 0..(w - 1) :
                  p.val[w * (c - 1) + j + 1] = Byte(last.val[c], w - 1 - j)

C10_BigEndianCells == Encoded("qdt_setprop_cells_", 4) /\ Encoded("qdt_setprop_u64s_", 8)

\* C10: on a little-endian host qdt_setprop_cells_ has stored 0x01020304 and
\* then 0x80000001
C10_Witness ==
    /\ last.op = "qdt_setprop_cells_" /\ ~host_be
    /\ last.val = << <<1, 2, 3, 4>>, <<128, 0, 0, 1>> >>
    /\ Got(nodes, 1, "reg") = << 8, <<1, 2, 3, 4, 128, 0, 0, 1>> >>

-----------------------------------------------------------------------------
(* Reading a tree back from the encoder calls *)

\* the tree below n without its addresses: the name, the properties in list
\* order and the subtrees of the children in list order
RECURSIVE Shape(_, _)
Shape(ns, n) ==
    [name  |-> ns[n].name,
     props |-> [i \in 1..Len(ns[n].properties) |->
                  [name |-> ns[n].properties[i].name,
                   len  |-> ns[n].properties[i].len,
                   val  |-> ns[n].properties[i].val]],
     kids  |-> [i \in 1..Len(ns[n].children) |-> Shape(ns, ns[n].children[i])]]

\* reading node-begin, property and node-end events from left to right: the
\* stack holds the nodes begun and not yet ended, below them a holder that
\* collects the finished top-level trees
RECURSIVE Rebuild(_, _)
Rebuild(ev, stack) ==
    IF ev = <<>> THEN stack
    ELSE LET e   == Head(ev)
             top == Len(stack)
         IN  CASE e.fn = "fdt_begin_node" ->
                      Rebuild(Tail(ev),
                              Append(stack, [name |-> e.name, props |-> <<>>,
                                             kids |-> <<>>]))
               [] e.fn = "fdt_property" ->
                      Rebuild(Tail(ev),
                              [stack EXCEPT ![top].props =
                                  Append(@, [name |-> e.name, len |-> e.len,
                                             val |-> e.val])])
               [] e.fn = "fdt_end_node" /\ top > 1 ->
                      Rebuild(Tail(ev),
                              [SubSeq(stack, 1, top - 1) EXCEPT ![top - 1].kids =
                                  Append(@, stack[top])])
               [] OTHER -> Rebuild(Tail(ev), stack)

\* the trees a sequence of events describes
Decode(ev) == Rebuild(ev, << [name |-> <<>>, props |-> <<>>, kids |-> <<>>] >>)[1].kids

\* C11: the node-begin, property and node-end calls of a successful
\* qdt_flatten(root) can be read back to one tree, which is the tree below
\* root (names, properties and children, each in list order); the calls being
\* a function of the tree and the tree of the calls, two different trees
\* never flatten to the same calls.
C11_RoundTrip ==
    (last.op = "qdt_flatten" /\ ~aborted /\ last.ret.fdt) =>
        Decode(Events(SelectSeq(last.ret.calls, LAMBDA c : c.fn \in NodeCalls)))
            = << Shape(nodes, last.node) >>

\* C11: a successful flattening of a root with a property and two children
\* of the same name, the second with a property
C11_Witness ==
    /\ last.op = "qdt_flatten" /\ ~aborted /\ last.ret.fdt
    /\ nodes[1].children = <<2, 3>>
    /\ nodes[2].name = nodes[3].name
    /\ Len(nodes[1].properties) = 1
    /\ Len(nodes[2].properties) = 0
    /\ Len(nodes[3].properties) = 1

-----------------------------------------------------------------------------
(* Preconditions of the whole tree functions *)

\* C12: qdt_flatten(root) on a node that has a parent aborts before any
\* encoder call: nothing is returned, neither a buffer nor an error, and the
\* tree is as it was.  qdt_get_node(root, path) aborts in the same way when
\* root has a parent or path does not start with "/".
C12_Fatal ==
    /\ (last'.op = "qdt_flatten" /\ nodes[last'.node].parent # NULL) =>
           aborted' /\ last'.ret = NULL /\ nodes' = nodes
    /\ (/\ last'.op = "qdt_get_node"
        /\ \/ nodes[last'.node].parent # NULL
           \/ last'.name = <<>>
           \/ last'.name[1] # "/") =>
           aborted' /\ last'.ret = NULL /\ nodes' = nodes

C12_Precondition == [][C12_Fatal]_vars

\* C12: qdt_flatten has aborted on a node that has a parent, a child and a
\* property
C12_Witness ==
    /\ aborted /\ last.op = "qdt_flatten"
    /\ nodes[last.node].parent # NULL
    /\ Len(nodes[last.node].children) = 1
    /\ Len(nodes[last.node].properties) = 1

\* how many of the calls are calls of fn
Times(calls, fn) == Cardinality({ i \in 1..Len(calls) : calls[i].fn = fn })

\* C13: the encoder calls of a qdt_flatten(root) are the first calls of
\* fdt_create, fdt_finish_reservemap, Pre(root), fdt_finish, in that order
\* and none twice; they stop at the first call that fails, whatever the
\* depth of the node it was made for, and only there: when none fails all
\* are made.  So fdt_finish is called only when every call before it was
\* made and succeeded.
C13_Prefix ==
    (last.op = "qdt_flatten" /\ ~aborted) =>
        LET calls == last.ret.calls
            all   == AllSteps(nodes, last.node)
        IN  /\ Len(calls) <= Len(all)
            /\ Events(calls) = SubSeq(all, 1, Len(calls))
            /\ \A i \in Failed(calls) : i = Len(calls)
            /\ Failed(calls) = {} => Len(calls) = Len(all)
            /\ \A fn \in { "fdt_create", "fdt_finish_reservemap", "fdt_finish" } :
                  Times(calls, fn) <= 1
            /\ Times(calls, "fdt_finish") = 1 =>
                  /\ Len(calls) = Len(all)
                  /\ \A i \in 1..(Len(calls) - 1) : calls[i].ret = 0

\* C13: fdt_end_node() has failed for a node two levels below the root that
\* has a property, the first child of its parent, which has a second
\* child: three nodes were begun and none of the others was ended
C13_Witness ==
    /\ last.op = "qdt_flatten" /\ ~aborted
    /\ Len(nodes) = 3 /\ nodes[2].parent = 1 /\ nodes[3].parent = 2
    /\ Len(nodes[3].properties) = 1
    /\ Len(nodes[1].properties) = 2
    /\ last.ret.errp = << [step |-> "fdt_end_node()", cause |-> -7] >>
    /\ Times(last.ret.calls, "fdt_begin_node") = 3
    /\ Times(last.ret.calls, "fdt_end_node") = 1

-----------------------------------------------------------------------------
(* Properties of the tree as a whole *)

\* C14: qdt_add_subnode(parent, name) returns a node that was not there
\* before, with the name given, no property, no child and parent as its
\* parent; it is the last of parent's children, after the children parent
\* had, which keep their order; parent's name, parent and properties and
\* every other node, its properties included, are as they were.
C14_Attach ==
    (last'.op = "qdt_add_subnode" /\ ~aborted') =>
        LET c == last'.ret
            p == last'.node
        IN  /\ c \notin NodeIds
            /\ DOMAIN nodes' = NodeIds \cup { c }
            /\ nodes'[c] = [name |-> last'.name, parent |-> p,
                            properties |-> <<>>, children |-> <<>>]
            /\ nodes'[p].children = Append(nodes[p].children, c)
            /\ nodes'[p].name = nodes[p].name
            /\ nodes'[p].parent = nodes[p].parent
            /\ nodes'[p].properties = nodes[p].properties
            /\ \A n \in NodeIds \ { p } : nodes'[n] = nodes[n]

C14_AddSubnode == [][C14_Attach]_vars

\* C14: a second child has been attached to a root that has a property and
\* whose first child has a property
C14_Witness ==
    /\ last.op = "qdt_add_subnode" /\ ~aborted
    /\ last.node = 1 /\ last.ret = 3
    /\ nodes[1].children = <<2, 3>>
    /\ Len(nodes[1].properties) = 1
    /\ Len(nodes[2].properties) = 1

\* the child of n called seg that comes first in n's child list, NULL when
\* no child is called seg
First(ns, n, seg) ==
    LET at == { i \in 1..Len(ns[n].children) : ns[ns[n].children[i]].name = seg }
    IN  IF at = {} THEN NULL
        ELSE ns[n].children[CHOOSE i \in at : \A j \in at : i <= j]

\* the node reached from n by going, for each of segs in turn, to the first
\* child of that name; NULL when there is none
RECURSIVE FollowFirst(_, _, _)
FollowFirst(ns, n, segs) ==
    IF segs = <<>> THEN n
    ELSE IF First(ns, n, Head(segs)) = NULL THEN NULL
         ELSE FollowFirst(ns, First(ns, n, Head(segs)), Tail(segs))

\* the path a lookup resolves below its node: qdt_get_node skips the "/"
Below(call) == IF call.op = "qdt_get_node" THEN StrFrom(call.name, 2) ELSE call.name

Lookups == { "qdt_get_node_relative", "qdt_get_node" }

\* C15: a lookup treats an empty segment (the whole of "", what follows a
\* last "/", what lies between "//") as the name of a child: the result is
\* the node reached by going to the child of that name, the empty name
\* included, for every segment, or NULL; for a path that ends in an empty
\* segment it is a node with the empty name, never the node the lookup
\* started from.  So qdt_get_node_relative(n, "a/") is the empty-named
\* child of n's child a, and qdt_get_node(root, "/") the empty-named child
\* of root, or NULL.
C15_EmptySegment ==
    (last.op \in Lookups /\ ~aborted) =>
        LET segs == Split(Below(last))
            got  == last.ret.node
        IN  (\E j \in 1..Len(segs) : segs[j] = <<>>) =>
               /\ got = FollowFirst(nodes, last.node, segs)
               /\ (segs[Len(segs)] = <<>> /\ got # NULL) =>
                      nodes[got].name = <<>> /\ got # last.node
               /\ last.name = <<"a", "/">> =>
                      got = IF First(nodes, last.node, <<"a">>) = NULL THEN NULL
                            ELSE First(nodes, First(nodes, last.node, <<"a">>), <<>>)
               /\ (last.op = "qdt_get_node" /\ last.name = <<"/">>) =>
                      got = First(nodes, last.node, <<>>)

\* C15: qdt_get_node(root, "/") has returned the child of the root called
\* "", which is the second child of the root
C15_Witness ==
    /\ last.op = "qdt_get_node" /\ ~aborted
    /\ last.name = <<"/">>
    /\ nodes[last.node].children = <<2, 3>>
    /\ nodes[2].name = <<"a">>
    /\ nodes[3].name = <<>>
    /\ last.ret.node = 3

-----------------------------------------------------------------------------
(* Children of the same name *)

\* the nodes that are not the first child of their name of their parent
Dups(ns) ==
    { d \in 1..Len(ns) :
        ns[d].parent # NULL /\ First(ns, ns[d].parent, ns[d].name) # d }

\* the nodes below and including n in the order of a preorder walk
RECURSIVE PreNodes(_, _)
RECURSIVE PreNodesAll(_, _)
PreNodesAll(ns, kids) ==
    IF kids = <<>> THEN <<>>
    ELSE PreNodes(ns, Head(kids)) \o PreNodesAll(ns, Tail(kids))
PreNodes(ns, n) == <<n>> \o PreNodesAll(ns, ns[n].children)

Pos(seq, x) == CHOOSE i \in 1..Len(seq) : seq[i] = x

\* qdt_add_subnode succeeds whatever the names of the children parent has:
\* the node returned is a further child of the name given, the last of the
\* list, and no node is in the list twice
C16_Attached ==
    (last.op = "qdt_add_subnode" /\ ~aborted) =>
        LET kids == nodes[last.node].children
        IN  /\ last.ret \in NodeIds
            /\ kids # <<>> /\ kids[Len(kids)] = last.ret
            /\ nodes[last.ret].name = last.name
            /\ \A i, j \in 1..Len(kids) : i # j => kids[i] # kids[j]

\* a lookup goes, for every segment, to the first child of that name
C16_FirstWins ==
    (last.op \in Lookups /\ ~aborted) =>
        last.ret.node = FollowFirst(nodes, last.node, Split(Below(last)))

\* a successful qdt_flatten begins every node below the root, those of
\* Dups included, and a node of Dups after the first child of its name, as
\* it was attached after it
C16_BothEmitted ==
    (last.op = "qdt_flatten" /\ ~aborted /\ last.ret.fdt) =>
        LET begun == SelectSeq(last.ret.calls, LAMBDA c : c.fn = "fdt_begin_node")
            walk  == PreNodes(nodes, last.node)
        IN  /\ Len(begun) = Len(walk)
            /\ \A i \in 1..Len(walk) : begun[i].name = nodes[walk[i]].name
            /\ \A d \in Dups(nodes) \cap TreeOf(nodes, last.node) :
                  LET f == First(nodes, nodes[d].parent, nodes[d].name)
                  IN  f < d /\ Pos(walk, f) < Pos(walk, d)

\* C16 as stated: qdt_add_subnode attaches children of a name parent has a
\* child of already, lookups resolve the name to the first attached, no
\* lookup returns a later attached child of the name or a node below it,
\* and qdt_flatten emits them all in the order of attachment.
C16_NeverReturned ==
    /\ C16_Attached /\ C16_FirstWins /\ C16_BothEmitted
    /\ (last.op \in Lookups /\ ~aborted) =>
           \A d \in Dups(nodes) : last.ret.node \notin TreeOf(nodes, d)

\* C16: qdt_add_subnode attaches children of a name parent has a child of
\* already, lookups resolve the name to the first attached, no lookup that
\* starts outside the subtree of a later attached child of the name (so
\* no qdt_get_node) returns that child or a node below it, and qdt_flatten
\* emits them all in the order of attachment.
C16_Duplicates ==
    /\ C16_Attached /\ C16_FirstWins /\ C16_BothEmitted
    /\ (last.op \in Lookups /\ ~aborted) =>
           \A d \in Dups(nodes) :
               last.node \notin TreeOf(nodes, d) =>
                   last.ret.node \notin TreeOf(nodes, d)

\* C16: the root has two children called "a", the second has a child "b"
\* and the first has none: qdt_get_node(root, "/a/b") has found nothing
C16_Witness ==
    /\ last.op = "qdt_get_node" /\ ~aborted
    /\ last.name = <<"/", "a", "/", "b">>
    /\ nodes[1].children = <<2, 3>>
    /\ nodes[2].children = <<>>
    /\ nodes[3].children = <<4>> /\ nodes[4].name = <<"b">>
    /\ last.ret.node = NULL

-----------------------------------------------------------------------------
(* The work of a flattening *)

\* the number of properties of the nodes of S
RECURSIVE PropsOf(_, _)
PropsOf(ns, S) ==
    IF S = {} THEN 0
    ELSE LET n == CHOOSE x \in S : TRUE
         IN  Len(ns[n].properties) + PropsOf(ns, S \ { n })

\* the nodes begun and not ended by the first k of the calls
Open(calls, k) ==
    Times(SubSeq(calls, 1, k), "fdt_begin_node")
        - Times(SubSeq(calls, 1, k), "fdt_end_node")

\* C17: qdt_flatten(root) ends, with the buffer or with an error and never
\* both, after at most 3 + 2 * (nodes below and including root) + (their
\* properties) encoder calls; when it returns the buffer every node was
\* begun once and ended once, no node ended before it was begun and none
\* left open.
C17_Bounded ==
    (last.op = "qdt_flatten" /\ ~aborted) =>
        LET calls == last.ret.calls
            tree  == TreeOf(nodes, last.node)
            most  == 3 + 2 * Cardinality(tree) + PropsOf(nodes, tree)
        IN  /\ Len(calls) <= most
            /\ last.ret.fdt <=> last.ret.errp = <<>>
            /\ last.ret.fdt =>
                  /\ Len(calls) = most
                  /\ Times(calls, "fdt_begin_node") = Cardinality(tree)
                  /\ Times(calls, "fdt_end_node") = Cardinality(tree)
                  /\ \A k \in 0..Len(calls) : Open(calls, k) >= 0
                  /\ Open(calls, Len(calls)) = 0

\* C17: a chain of three nodes with four properties has been flattened
\* with 13 encoder calls
C17_Witness ==
    /\ last.op = "qdt_flatten" /\ ~aborted /\ last.ret.fdt
    /\ nodes[1].children = <<2>> /\ nodes[2].children = <<3>>
    /\ PropsOf(nodes, { 1, 2, 3 }) = 4
    /\ Len(last.ret.calls) = 13

-----------------------------------------------------------------------------
(* The shape of the heap *)

\* the places of n in the child lists: the pairs of a node and an index
Places(ns, n) ==
    { pi \in (1..Len(ns)) \X (1..Len(ns)) :
        pi[2] <= Len(ns[pi[1]].children) /\ ns[pi[1]].children[pi[2]] = n }

\* the node reached from n by k steps along the parent references
RECURSIVE Up(_, _, _)
Up(ns, n, k) == IF k = 0 \/ n = NULL THEN n ELSE Up(ns, ns[n].parent, k - 1)

\* the node without parent above n, when the parent references have no cycle
RootOf(ns, n) ==
    CHOOSE r \in 1..Len(ns) :
        ns[r].parent = NULL /\ \E k \in 0..(Len(ns) - 1) : Up(ns, n, k) = r

Forest(ns) ==
    /\ \A n \in 1..Len(ns) :
          IF ns[n].parent = NULL
          THEN Places(ns, n) = {}
          ELSE /\ Cardinality(Places(ns, n)) = 1
               /\ \A pi \in Places(ns, n) : pi[1] = ns[n].parent
    /\ \A n \in 1..Len(ns) : Up(ns, n, Len(ns)) = NULL
    /\ \A r \in 1..Len(ns) :
          ns[r].parent = NULL =>
              /\ TreeOf(ns, r) = { n \in 1..Len(ns) : RootOf(ns, n) = r }
              /\ \A n \in TreeOf(ns, r) :
                    Cardinality({ q \in 1..Len(ns) :
                        ns[q].parent = NULL /\ n \in TreeOf(ns, q) }) = 1
              /\ { n \in TreeOf(ns, r) : ns[n].parent = NULL } = { r }

\* a step adds at most one node and only by qdt_new_node, which leaves it
\* without parent, or qdt_add_subnode, which gives it one; the parent
\* reference of a node that was there does not change
Created ==
    /\ \A n \in NodeIds : n \in DOMAIN nodes' /\ nodes'[n].parent = nodes[n].parent
    /\ Len(nodes') # Len(nodes) =>
          /\ Len(nodes') = Len(nodes) + 1
          /\ last'.op \in { "qdt_new_node", "qdt_add_subnode" }
          /\ last'.ret = Len(nodes')
          /\ last'.op = "qdt_new_node" => nodes'[last'.ret].parent = NULL
          /\ last'.op = "qdt_add_subnode" =>
                 nodes'[last'.ret].parent = last'.node /\ last'.node \in NodeIds

\* C18: whatever qdt_new_node and qdt_add_subnode calls were made, a node
\* has no parent exactly when qdt_new_node made it and then it is in no
\* child list; a node made by qdt_add_subnode is once in one child list,
\* that of its parent; the parent references have no cycle; every tree
\* holds one node without parent, its root; and no parent reference
\* changes.
C18_StrictForest == []Forest(nodes) /\ [][Created]_vars

\* C18: two roots, the second with a child that qdt_add_subnode has just
\* attached
C18_Witness ==
    /\ last.op = "qdt_add_subnode" /\ ~aborted
    /\ Len(nodes) = 3
    /\ nodes[2].parent = NULL
    /\ nodes[3].parent = 2 /\ nodes[2].children = <<3>>

-----------------------------------------------------------------------------
(* The functions that only read *)

Readers == { "qdt_flatten", "qdt_get_node", "qdt_get_node_relative", "qdt_getprop" }

\* C19: a call of qdt_flatten, qdt_get_node, qdt_get_node_relative or
\* qdt_getprop, whether it returns a result, returns NULL, reports an error
\* or aborts, leaves every node with the name, parent, children and
\* properties (names, lengths, bytes, order) it had; so a qdt_flatten that
\* follows a qdt_flatten of the same root with the same encoder outcomes
\* makes the same encoder calls.
C19_Reads ==
    /\ last'.op \in Readers => nodes' = nodes
    /\ (/\ last.op = "qdt_flatten" /\ last'.op = "qdt_flatten"
        /\ ~aborted /\ ~aborted'
        /\ last'.node = last.node /\ last'.val = last.val) =>
           last'.ret.calls = last.ret.calls

C19_ReadOnly == [][C19_Reads]_vars

\* C19: qdt_flatten has failed in fdt_finish() on a tree of three nodes
\* that hold properties
C19_Witness ==
    /\ last.op = "qdt_flatten" /\ ~aborted
    /\ last.ret.errp = << [step |-> "fdt_finish()", cause |-> -3] >>
    /\ Len(nodes) = 3
    /\ \A n \in NodeIds : Len(nodes[n].properties) = 1

-----------------------------------------------------------------------------
(* Setting a property from a property *)

\* C20: qdt_setprop_dup(n, name, p), which is qdt_setprop(n, name, p->val,
\* p->len), leaves n with a property called name whose length and bytes
\* are those p had when the call was made, also when p is the property of
\* n called name, the one the call replaces.
C20_Source ==
    last'.op = "qdt_setprop_dup" =>
        LET p == nodes[last'.val[1]].properties[last'.val[2]]
        IN  Got(nodes', last'.node, last'.name) = << p.len, p.val >>

C20_DupKeepsBytes == [][C20_Source]_vars

====
